---- MODULE Spec2Model ----
(***************************************************************************)
(* Model of scripts/adjudicate.py: the JSON request dispatcher (main and   *)
(* the operation handlers) and the render post-processor                   *)
(* (strip_non_sc_coloring).                                                *)
(*                                                                         *)
(* Text is modelled two ways.  Short identifiers (province ids, center     *)
(* names) are sequences of one-character strings so that upper(),          *)
(* lstrip("_") and [:3] are computed.  A markup document is a sequence of  *)
(* segments, each with its length in characters, so that character         *)
(* offsets, the 500-character look-behind and slicing are computed.        *)
(***************************************************************************)
EXTENDS Integers, Sequences, FiniteSets, TLC

VARIABLES
    svg,        \* post-processor: the input document
    centers,    \* post-processor: the centers mapping (power -> set of names)
    out1,       \* post-processor: strip_non_sc_coloring(svg, centers)
    out2,       \* post-processor: strip_non_sc_coloring(out1, centers)
    spc,        \* post-processor: how many times the function was applied
    request,    \* dispatcher: the input document on stdin
    pc,         \* dispatcher: position in main()
    op,         \* dispatcher: local `op`
    game,       \* dispatcher: local `game` (the engine handle)
    result,     \* dispatcher: local `result`
    exc,        \* dispatcher: the exception being handled / that escaped
    out,        \* dispatcher: the JSON documents written to stdout, in order
    log,        \* dispatcher: the engine calls made so far, in order
    rendered    \* dispatcher: the markup the engine's render returned

stripVars == <<svg, centers, out1, out2, spc>>
mainVars  == <<request, pc, op, game, result, exc, out, log, rendered>>
vars      == <<svg, centers, out1, out2, spc,
               request, pc, op, game, result, exc, out, log, rendered>>

----------------------------------------------------------------------------
(* Bounds of the model *)

MaxDoc == 4          \* longest document, in segments

----------------------------------------------------------------------------
(* Characters and short strings *)

SetMax(S) == CHOOSE x \in S : \A y \in S : y <= x
Min(a, b) == IF a < b THEN a ELSE b
Max(a, b) == IF a > b THEN a ELSE b

LowerLetters == {"a", "b", "p", "r", "u", "g"}

\* str.upper() on one character
UpperChar(c) ==
    CASE c = "a" -> "A" [] c = "b" -> "B" [] c = "p" -> "P"
      [] c = "r" -> "R" [] c = "u" -> "U" [] c = "g" -> "G"
      [] OTHER -> c

\* str.upper()
Upper(s) == [i \in 1..Len(s) |-> UpperChar(s[i])]

\* s[:n]
Prefix(s, n) == SubSeq(s, 1, Min(n, Len(s)))

\* str.lstrip("_")
RECURSIVE LStripUnderscore(_)
LStripUnderscore(s) ==
    IF s # <<>> /\ Head(s) = "_" THEN LStripUnderscore(Tail(s)) ELSE s

\* The seven alternatives of POWERS_RE
POWERS_RE ==
    {"austria", "england", "france", "germany", "italy", "russia", "turkey"}

\* The look-behind of should_keep, in characters
Window == 500

----------------------------------------------------------------------------
(* Documents *)

\* A segment of a document:
\*   k = "id"   the text  id="<name>"            (4 + Len(name) + 1 characters)
\*   k = "path" the text  <ws><path class="<class>" .../>  (len characters,
\*              leading whitespace included, no "/" before the closing "/>")
\*   k = "txt"  len characters holding neither of the above
IdSeg(name)        == [k |-> "id", name |-> name, class |-> "", len |-> Len(name) + 5]
PathSeg(class, n)  == [k |-> "path", name |-> <<>>, class |-> class, len |-> n]
TxtSeg(n)          == [k |-> "txt", name |-> <<>>, class |-> "", len |-> n]

\* m.start() / m.end() of the segment at index i: character offsets
RECURSIVE Offset(_, _)
Offset(doc, i) == IF i <= 1 THEN 0 ELSE Offset(doc, i - 1) + doc[i - 1].len
EndOffset(doc, i) == Offset(doc, i) + doc[i].len
TextLen(doc) == IF doc = <<>> THEN 0 ELSE EndOffset(doc, Len(doc))

\* doc[a:b] for offsets a <= b; a segment cut by a or b loses its identity
\* (a cut id marker no longer matches id="...", a cut element is no element),
\* and is carried as plain text of the remaining length
RECURSIVE SliceFrom(_, _, _, _)
SliceFrom(doc, i, a, b) ==
    IF i > Len(doc) THEN <<>>
    ELSE LET s == Offset(doc, i)
             e == EndOffset(doc, i)
             lo == Max(s, a)
             hi == Min(e, b)
             rest == SliceFrom(doc, i + 1, a, b)
         IN  IF hi <= lo THEN rest
             ELSE IF lo = s /\ hi = e THEN <<doc[i]>> \o rest
             ELSE <<TxtSeg(hi - lo)>> \o rest
Slice(doc, a, b) == SliceFrom(doc, 1, a, b)

\* re: id="(_[a-z_]+)"  applied to the name between the quotes
IdRegexMatches(name) ==
    /\ Len(name) >= 2
    /\ name[1] = "_"
    /\ \A i \in 2..Len(name) : name[i] \in LowerLetters \cup {"_"}

\* re: \s*<path\s+class="(?:POWERS_RE)"[^/]*/>
PatternMatches(seg) == seg.k = "path" /\ seg.class \in POWERS_RE

\* pattern.finditer(svg): the matches from segment i on, left to right, as
\* segment indices
RECURSIVE FindIterFrom(_, _)
FindIterFrom(doc, i) ==
    IF i > Len(doc) THEN <<>>
    ELSE (IF PatternMatches(doc[i]) THEN <<i>> ELSE <<>>) \o FindIterFrom(doc, i + 1)
FindIter(doc) == FindIterFrom(doc, 1)

\* re.finditer(r'id="(_[a-z_]+)"', text): the matches from segment i on
RECURSIVE FindIdsFrom(_, _)
FindIdsFrom(doc, i) ==
    IF i > Len(doc) THEN <<>>
    ELSE (IF doc[i].k = "id" /\ IdRegexMatches(doc[i].name) THEN <<i>> ELSE <<>>)
         \o FindIdsFrom(doc, i + 1)
FindIds(doc) == FindIdsFrom(doc, 1)

----------------------------------------------------------------------------
(* strip_non_sc_coloring *)

\* all_scs: every power's centers, each c.upper()[:3], in one set
AllScs(cs) == UNION {{Prefix(Upper(c), 3) : c \in cs[p]} : p \in DOMAIN cs}

\* id_matches[-1].group(1).lstrip("_").upper()[:3]
Province(name) == Prefix(Upper(LStripUnderscore(name)), 3)

\* should_keep(match), the match being segment m of doc
should_keep_first(doc, m, all_scs) ==
    LET preceding  == Slice(doc, Max(0, Offset(doc, m) - Window), Offset(doc, m))
        id_matches == FindIds(preceding)
    IN  IF id_matches = <<>> THEN TRUE
        ELSE Province(preceding[id_matches[1]].name) \in all_scs

should_keep(doc, m, all_scs) ==
    LET preceding  == Slice(doc, Max(0, Offset(doc, m) - Window), Offset(doc, m))
        id_matches == FindIds(preceding)
    IN  IF id_matches = <<>> THEN TRUE
        ELSE Province(preceding[id_matches[Len(id_matches)]].name) \in all_scs

\* One iteration of `for m in pattern.finditer(svg)`: the text appended to parts
LoopPart_dropKept(doc, m, last_end, all_scs) ==
    Slice(doc, last_end, Offset(doc, m))

LoopPart(doc, m, last_end, all_scs) ==
    IF should_keep(doc, m, all_scs)
    THEN Slice(doc, last_end, EndOffset(doc, m))
    ELSE Slice(doc, last_end, Offset(doc, m))

\* The loop from the k-th match on, then parts.append(svg[last_end:]) and join
RECURSIVE StripLoop(_, _, _, _, _)
StripLoop(doc, ms, k, last_end, all_scs) ==
    IF k > Len(ms) THEN Slice(doc, last_end, TextLen(doc))
    ELSE LoopPart(doc, ms[k], last_end, all_scs)
         \o StripLoop(doc, ms, k + 1, EndOffset(doc, ms[k]), all_scs)

strip_non_sc_coloring(doc, cs) == StripLoop(doc, FindIter(doc), 1, 0, AllScs(cs))

----------------------------------------------------------------------------
(* JSON values of the request and the response *)

\* A key of a JSON object that may be absent: dict.get(key, default)
Absent(dummy) == [present |-> FALSE, v |-> dummy]
Given(value)  == [present |-> TRUE, v |-> value]
Get(d, key, default) == IF d[key].present THEN d[key].v ELSE default

\* A record whose keys may be absent: dict.get(key, default)
GetKey(d, key, default) == IF key \in DOMAIN d THEN d[key] ELSE default

\* Python's None as the value of `op`, and a string as the value of `op`
NoneOp == [none |-> TRUE, s |-> ""]
StrOp(name) == [none |-> FALSE, s |-> name]

\* str(op) inside an f-string
PyStr(o) == IF o.none THEN "None" ELSE o.s

\* The state blobs a request can carry: none (the default of .get), an empty
\* object, a saved game
NoneBlob  == [kind |-> "none", phase |-> "", ver |-> 0, phases |-> <<>>]
EmptyBlob == [kind |-> "empty", phase |-> "", ver |-> 0, phases |-> <<>>]
SavedBlob == [kind |-> "saved", phase |-> "S1901M", ver |-> 0, phases |-> <<>>]

\* bool(game_state)
Truthy(blob) == blob.kind = "saved"

\* {"ok": True, "result": result}
OkDoc(res) == [ok |-> TRUE, result |-> res]

\* {"ok": False, "error": message}
ErrDoc_okTrue(message) == [ok |-> TRUE, error |-> message]
ErrDoc(message) == [ok |-> FALSE, error |-> message]

----------------------------------------------------------------------------
(* The engine, seen through the calls the bridge makes *)

MaxHist   == 2       \* longest phase history the engine serializes
MaxOrders == 2       \* most powers named in a request's orders mapping

\* game.get_map_power_names()
PowerSeq == <<"FRANCE", "ITALY">>
PowerSet == {PowerSeq[i] : i \in 1..Len(PowerSeq)}

\* What the engine can raise
EngineErrors ==
    { [raised |-> TRUE, type |-> "ValueError", msg |-> "bad state"],
      [raised |-> TRUE, type |-> "KeyError", msg |-> "'MARS'"] }
NoExc == [raised |-> FALSE, type |-> "", msg |-> ""]

Call(fn, arg) == [fn |-> fn, arg |-> arg]

\* Phase names; entries of the serialized history, with or without the
\* "orders" and "results" keys
PhasesAfter == {"F1901M", "COMPLETED"}
EntryNames  == {"S1901M", "F1901M"}
Entries ==
    UNION { { [name |-> n],
              [name |-> n, orders |-> "o1", results |-> "r1"],
              [name |-> n, orders |-> "o2", results |-> "r2"] } : n \in EntryNames }
Histories == UNION {[1..n -> Entries] : n \in 0..MaxHist}

Locs == {"PAR", "BUR"}
OrderLists == { <<>>, <<"H">> }

\* An engine handle
Handle(phase, ver, hasPhases, phases) ==
    [loaded |-> TRUE, phase |-> phase, ver |-> ver,
     hasPhases |-> hasPhases, phases |-> phases,
     orderable |-> [p \in PowerSet |-> {}], possible |-> <<>>]
NoGame ==
    [loaded |-> FALSE, phase |-> "", ver |-> 0, hasPhases |-> FALSE, phases |-> <<>>,
     orderable |-> [p \in PowerSet |-> {}], possible |-> <<>>]

\* Game()
FreshGame == Handle("S1901M", 0, TRUE, <<>>)

\* from_saved_game_format(blob)
from_saved_game_format(blob) ==
    Handle(blob.phase, blob.ver, "phases" \in DOMAIN blob, GetKey(blob, "phases", <<>>))

\* to_saved_game_format(game)
to_saved_game_format(g) ==
    IF g.hasPhases
    THEN [kind |-> "saved", phase |-> g.phase, ver |-> g.ver, phases |-> g.phases]
    ELSE [kind |-> "saved", phase |-> g.phase, ver |-> g.ver]

\* game.get_units(name), game.get_centers(name), game.is_game_done: values of
\* the engine state at version ver
get_units(g, name) == [power |-> name, unitsAt |-> g.ver]
get_centers(g, name) ==
    IF g.ver = 0
    THEN (IF name = "FRANCE" THEN { <<"P", "A", "R">> } ELSE {})
    ELSE (IF name = "ITALY" THEN { <<"b", "u", "r", "g">> } ELSE {})
is_game_done(g) == g.phase = "COMPLETED"

\* The engine calls of `{name: f(name) for name in game.get_map_power_names()}`
PerPowerCalls(fn) ==
    <<Call("get_map_power_names", "")>> \o [i \in 1..Len(PowerSeq) |-> Call(fn, PowerSeq[i])]

----------------------------------------------------------------------------
(* The operation handlers: their results and the engine calls they make *)

\* new_game()
new_game_calls ==
    <<Call("Game", ""), Call("to_saved_game_format", ""), Call("get_current_phase", "")>>
    \o PerPowerCalls("get_units") \o PerPowerCalls("get_centers")
new_game_result ==
    [game_state |-> to_saved_game_format(FreshGame),
     phase      |-> FreshGame.phase,
     units      |-> [n \in PowerSet |-> get_units(FreshGame, n)],
     centers    |-> [n \in PowerSet |-> get_centers(FreshGame, n)]]

\* get_state(game)
get_state_calls ==
    <<Call("get_current_phase", "")>>
    \o PerPowerCalls("get_units") \o PerPowerCalls("get_centers")
    \o <<Call("is_game_done", "")>>
get_state(g) ==
    [phase        |-> g.phase,
     units        |-> [n \in PowerSet |-> get_units(g, n)],
     centers      |-> [n \in PowerSet |-> get_centers(g, n)],
     is_game_done |-> is_game_done(g)]

\* completed_phases of set_orders_and_process
RECURSIVE Filter(_, _)
Filter(phases, current) ==
    IF phases = <<>> THEN <<>>
    ELSE (IF Head(phases).name # current THEN <<Head(phases)>> ELSE <<>>)
         \o Filter(Tail(phases), current)

completed_phases_unfiltered(saved, current) == GetKey(saved, "phases", <<>>)

completed_phases(saved, current) == Filter(GetKey(saved, "phases", <<>>), current)

\* request.get("render", False)
render_flag_defaultTrue(body) == Get(body, "render", TRUE)

render_flag(body) == Get(body, "render", FALSE)

\* Two records merged, the second where both have a key
Merge(r1, r2) ==
    [key \in DOMAIN r1 \cup DOMAIN r2 |-> IF key \in DOMAIN r2 THEN r2[key] ELSE r1[key]]

\* set_orders_and_process(game, orders, render): the result, g being the
\* engine state after game.process() and markup what game.render returns
set_orders_and_process(g, render, markup) ==
    LET saved == to_saved_game_format(g)
        base  == Merge([game_state |-> saved], get_state(g))
        done  == completed_phases(saved, g.phase)
        last_phase == done[Len(done)]
        with_results ==
            IF done # <<>>
            THEN Merge(base,
                       [order_results |->
                           [orders  |-> GetKey(last_phase, "orders", "{}"),
                            results |-> GetKey(last_phase, "results", "{}")]])
            ELSE base
    IN  IF render
        THEN Merge(with_results,
                   [svg |-> strip_non_sc_coloring(markup, with_results.centers)])
        ELSE with_results

\* The engine calls of set_orders_and_process, in order
set_orders_and_process_calls(orders, g, render) ==
    [i \in 1..Len(orders) |-> Call("set_orders", orders[i])]
    \o <<Call("process", ""), Call("to_saved_game_format", "")>>
    \o get_state_calls
    \o [i \in 1..Len(GetKey(to_saved_game_format(g), "phases", <<>>)) |->
            Call("get_current_phase", "")]
    \o (IF render THEN <<Call("render", "")>> ELSE <<>>)

\* power_orders of get_possible_orders, for one power
power_orders_allKeys(locs, all_possible) == all_possible

power_orders(locs, all_possible) ==
    [loc \in locs \cap DOMAIN all_possible |-> all_possible[loc]]

\* get_possible_orders(game)
get_possible_calls ==
    <<Call("get_all_possible_orders", ""), Call("get_map_power_names", "")>>
    \o [i \in 1..Len(PowerSeq) |-> Call("get_orderable_locations", PowerSeq[i])]
    \o <<Call("get_current_phase", "")>>
get_possible_orders(g) ==
    [phase |-> g.phase,
     possible_orders |->
        [n \in PowerSet |-> power_orders(g.orderable[n], g.possible)]]

\* render_map(game)
render_map_calls ==
    <<Call("render", "")>> \o PerPowerCalls("get_centers")
    \o <<Call("get_current_phase", "")>>
render_map(g, markup) ==
    [svg   |-> strip_non_sc_coloring(markup, [n \in PowerSet |-> get_centers(g, n)]),
     phase |-> g.phase]

----------------------------------------------------------------------------
(* The post-processor applied to bounded inputs, once and then to its own  *)
(* output                                                                  *)

\* Province ids: _par -> PAR; __burg -> BUR (two underscores, truncated);
\* par (no leading underscore) is not matched by the id regex
IdNames ==
    { <<"_", "p", "a", "r">>,
      <<"_", "_", "b", "u", "r", "g">>,
      <<"p", "a", "r">> }

\* Center names as the caller may pass them: PAR; burg -> BUR
CenterPowers == {"FRANCE", "ITALY"}
CenterNames(p) ==
    IF p = "FRANCE" THEN { <<"P", "A", "R">> } ELSE { <<"b", "u", "r", "g">> }
CenterMaps == [p \in CenterPowers |-> SUBSET CenterNames(p)]

\* A power-coloured overlay, a path of another class, and a long text
Segments ==
    {IdSeg(n) : n \in IdNames}
    \cup {PathSeg("france", 30), PathSeg("water", 30)}
    \cup {TxtSeg(480)}

Docs == UNION {[1..n -> Segments] : n \in 0..MaxDoc}

MainIdle ==
    /\ request = [kind |-> "none", body |-> <<>>]
    /\ pc = "idle"
    /\ op = NoneOp
    /\ game = NoGame
    /\ result = <<>>
    /\ exc = NoExc
    /\ out = <<>>
    /\ log = <<>>
    /\ rendered = <<>>

InitStrip ==
    /\ svg \in Docs
    /\ centers \in {c \in [CenterPowers -> UNION {CenterMaps[p] : p \in CenterPowers}] :
                        \A p \in CenterPowers : c[p] \in CenterMaps[p]}
    /\ out1 = <<>>
    /\ out2 = <<>>
    /\ spc = "in"
    /\ MainIdle

\* out1 = strip_non_sc_coloring(svg, centers)
StripOnce ==
    /\ spc = "in"
    /\ out1' = strip_non_sc_coloring(svg, centers)
    /\ spc' = "once"
    /\ UNCHANGED <<svg, centers, out2>>
    /\ UNCHANGED mainVars

\* out2 = strip_non_sc_coloring(out1, centers)
StripAgain ==
    /\ spc = "once"
    /\ out2' = strip_non_sc_coloring(out1, centers)
    /\ spc' = "twice"
    /\ UNCHANGED <<svg, centers, out1>>
    /\ UNCHANGED mainVars

NextStrip == StripOnce \/ StripAgain

SpecStrip == InitStrip /\ [][NextStrip]_vars

----------------------------------------------------------------------------
(* main(): one request per run *)

StateOps == {"set_orders_and_process", "get_possible", "get_state", "render_map"}
KnownOps == {"new_game"} \cup StateOps

\* op in ("set_orders_and_process", "get_possible", "get_state", "render_map")
IsStateOp_anyOther(o) == o # StrOp("new_game")

IsStateOp(o) == ~o.none /\ o.s \in StateOps

\* not game_state, for game_state = request.get("game_state")
MissingGameState_never(body) == FALSE

MissingGameState(body) == ~Truthy(Get(body, "game_state", NoneBlob))

\* The orders mappings a request can carry, as the sequence of their keys
\* (distinct names, in document order; MARS is no power of the map)
RECURSIVE Distinct(_)
Distinct(q) ==
    IF q = <<>> THEN TRUE
    ELSE (\A i \in 2..Len(q) : q[i] # q[1]) /\ Distinct(Tail(q))
OrderKeys == PowerSet \cup {"MARS"}
OrderMaps ==
    {q \in UNION {[1..n -> OrderKeys] : n \in 0..MaxOrders} : Distinct(q)}

\* The markup the engine's render can return
RenderDocs ==
    { <<IdSeg(<<"_", "p", "a", "r">>), PathSeg("france", 30)>>,
      <<IdSeg(<<"_", "_", "b", "u", "r", "g">>), PathSeg("italy", 30), TxtSeg(480)>> }

\* The input documents: text that is no JSON, JSON that is no object, and
\* objects with any of the four keys present or absent
Objects ==
    [ op         : {Absent("")} \cup {Given(o) : o \in KnownOps \cup {"bogus"}},
      game_state : {Absent(NoneBlob), Given(EmptyBlob), Given(SavedBlob)},
      orders     : {Absent(<<>>)} \cup {Given(q) : q \in OrderMaps},
      render     : {Absent(FALSE), Given(TRUE), Given(FALSE)} ]
NoBody ==
    [op |-> Absent(""), game_state |-> Absent(NoneBlob),
     orders |-> Absent(<<>>), render |-> Absent(FALSE)]
Requests ==
    { [kind |-> "garbage", body |-> NoBody], [kind |-> "nonobj", body |-> NoBody] }
    \cup { [kind |-> "obj", body |-> b] : b \in Objects }

StripIdle ==
    /\ svg = <<>>
    /\ centers = [p \in CenterPowers |-> {}]
    /\ out1 = <<>>
    /\ out2 = <<>>
    /\ spc = "idle"

Init ==
    /\ request \in Requests
    /\ pc = "start"
    /\ op = NoneOp
    /\ game = NoGame
    /\ result = <<>>
    /\ exc = NoExc
    /\ out = <<>>
    /\ log = <<>>
    /\ rendered = <<>>
    /\ StripIdle

\* json.loads raises JSONDecodeError: the parse error is written, main returns
ParseError ==
    /\ pc = "start"
    /\ request.kind = "garbage"
    /\ out' = Append(out, ErrDoc("Invalid JSON: " \o "Expecting value"))
    /\ pc' = "done"
    /\ UNCHANGED <<request, op, game, result, exc, log, rendered>>
    /\ UNCHANGED stripVars

\* json.loads returns
ParseOk ==
    /\ pc = "start"
    /\ request.kind # "garbage"
    /\ pc' = "parsed"
    /\ UNCHANGED <<request, op, game, result, exc, out, log, rendered>>
    /\ UNCHANGED stripVars

\* op = request.get("op"), outside any try: a value that is no object has no
\* .get, and the AttributeError leaves main
GetOp ==
    /\ pc = "parsed"
    /\ IF request.kind = "obj"
       THEN /\ op' = (IF request.body.op.present
                      THEN StrOp(request.body.op.v) ELSE NoneOp)
            /\ pc' = "dispatch"
            /\ exc' = exc
       ELSE /\ exc' = [raised |-> TRUE, type |-> "AttributeError",
                       msg |-> "object has no attribute 'get'"]
            /\ pc' = "escaped"
            /\ op' = op
    /\ UNCHANGED <<request, game, result, out, log, rendered>>
    /\ UNCHANGED stripVars

\* A handler making the engine calls `calls`: either all return and the
\* handler's result is res, or the first n return and the next one raises e
RunHandler(calls, res, g, markup) ==
    \/ /\ log' = log \o calls
       /\ result' = res
       /\ game' = g
       /\ rendered' = markup
       /\ pc' = "emit"
       /\ exc' = exc
    \/ \E n \in 0..(Len(calls) - 1), e \in EngineErrors :
          /\ log' = log \o SubSeq(calls, 1, n + 1)
          /\ exc' = e
          /\ pc' = "except"
          /\ UNCHANGED <<result, game, rendered>>

\* if op == "new_game": result = new_game()
DoNewGame ==
    /\ pc = "dispatch"
    /\ op = StrOp("new_game")
    /\ RunHandler(new_game_calls, new_game_result, FreshGame, rendered)
    /\ UNCHANGED <<request, op, out>>
    /\ UNCHANGED stripVars

\* if not game_state: write the error and return
DoMissingGameState ==
    /\ pc = "dispatch"
    /\ op # StrOp("new_game")
    /\ IsStateOp(op)
    /\ MissingGameState(request.body)
    /\ out' = Append(out, ErrDoc("Missing game_state"))
    /\ pc' = "done"
    /\ UNCHANGED <<request, op, game, result, exc, log, rendered>>
    /\ UNCHANGED stripVars

\* game = load_game(game_state)
DoLoadGame ==
    /\ pc = "dispatch"
    /\ op # StrOp("new_game")
    /\ IsStateOp(op)
    /\ ~MissingGameState(request.body)
    /\ log' = Append(log, Call("from_saved_game_format", ""))
    /\ \/ /\ game' = from_saved_game_format(Get(request.body, "game_state", NoneBlob))
          /\ pc' = "loaded"
          /\ exc' = exc
       \/ \E e \in EngineErrors :
             /\ exc' = e
             /\ pc' = "except"
             /\ game' = game
    /\ UNCHANGED <<request, op, result, out, rendered>>
    /\ UNCHANGED stripVars

\* else: write "Unknown op: {op}" and return
DoUnknownOp ==
    /\ pc = "dispatch"
    /\ op # StrOp("new_game")
    /\ ~IsStateOp(op)
    /\ out' = Append(out, ErrDoc("Unknown op: " \o PyStr(op)))
    /\ pc' = "done"
    /\ UNCHANGED <<request, op, game, result, exc, log, rendered>>
    /\ UNCHANGED stripVars

\* result = set_orders_and_process(game, orders, render); game.process() moves
\* the engine to a state of its choosing, game.render returns markup of its
\* choosing
DoSetOrdersAndProcess ==
    /\ pc = "loaded"
    /\ op = StrOp("set_orders_and_process")
    /\ \E ph \in PhasesAfter, hp \in BOOLEAN, h \in Histories, markup \in RenderDocs :
          LET orders == Get(request.body, "orders", <<>>)
              render == render_flag(request.body)
              g      == Handle(ph, game.ver + 1, hp, h)
          IN  /\ hp \/ h = <<>>
              /\ RunHandler(set_orders_and_process_calls(orders, g, render),
                            set_orders_and_process(g, render, markup), g,
                            IF render THEN markup ELSE rendered)
    /\ UNCHANGED <<request, op, out>>
    /\ UNCHANGED stripVars

\* result = get_possible_orders(game); the engine reports the orderable
\* locations of each power and the possible orders by location
DoGetPossible ==
    /\ pc = "loaded"
    /\ op = StrOp("get_possible")
    /\ \E orderable \in [PowerSet -> SUBSET Locs],
          possible \in UNION {[S -> OrderLists] : S \in SUBSET Locs} :
          LET g == [game EXCEPT !.orderable = orderable, !.possible = possible]
          IN  RunHandler(get_possible_calls, get_possible_orders(g), g, rendered)
    /\ UNCHANGED <<request, op, out>>
    /\ UNCHANGED stripVars

\* result = get_state(game)
DoGetState ==
    /\ pc = "loaded"
    /\ op = StrOp("get_state")
    /\ RunHandler(get_state_calls, get_state(game), game, rendered)
    /\ UNCHANGED <<request, op, out>>
    /\ UNCHANGED stripVars

\* result = render_map(game)
DoRenderMap ==
    /\ pc = "loaded"
    /\ op = StrOp("render_map")
    /\ \E markup \in RenderDocs :
          RunHandler(render_map_calls, render_map(game, markup), game, markup)
    /\ UNCHANGED <<request, op, out>>
    /\ UNCHANGED stripVars

\* json.dump({"ok": True, "result": result}, sys.stdout)
EmitOk ==
    /\ pc = "emit"
    /\ out' = Append(out, OkDoc(result))
    /\ pc' = "done"
    /\ UNCHANGED <<request, op, game, result, exc, log, rendered>>
    /\ UNCHANGED stripVars

\* except Exception as e: json.dump({"ok": False, "error": "<type>: <e>"})
HandleException ==
    /\ pc = "except"
    /\ out' = Append(out, ErrDoc(exc.type \o ": " \o exc.msg))
    /\ pc' = "done"
    /\ UNCHANGED <<request, op, game, result, exc, log, rendered>>
    /\ UNCHANGED stripVars

Next ==
    \/ ParseError
    \/ ParseOk
    \/ GetOp
    \/ DoNewGame
    \/ DoMissingGameState
    \/ DoLoadGame
    \/ DoUnknownOp
    \/ DoSetOrdersAndProcess
    \/ DoGetPossible
    \/ DoGetState
    \/ DoRenderMap
    \/ EmitOk
    \/ HandleException

Spec == Init /\ [][Next]_vars

----------------------------------------------------------------------------
(* Properties of main() *)

Terminated == pc \in {"done", "escaped"}
IsObject == request.kind = "obj"
RequestOp == request.body.op
NamesKnownOp == IsObject /\ RequestOp.present /\ RequestOp.v \in KnownOps

\* The handler of operation o ran to its end without an engine exception
Succeeded(o) ==
    /\ pc = "done"
    /\ IsObject /\ RequestOp.present /\ RequestOp.v = o
    /\ game.loaded
    /\ ~exc.raised

\* How often, and where, an engine capability was called
Indices(fn) == {i \in 1..Len(log) : log[i].fn = fn}
Times(fn) == Cardinality(Indices(fn))

\* C1 (as claimed): whatever the input document, the run ends with no
\* exception leaving main() and exactly one JSON document written; a parse
\* failure is reported by the parse-error message before any dispatch, an
\* engine exception as {ok:false, error:"<type>: <message>"}.
C1_NeverEscapesOneDocument ==
    Terminated =>
        /\ pc # "escaped"
        /\ Len(out) = 1
        /\ request.kind = "garbage" =>
              /\ out[1] = ErrDoc("Invalid JSON: " \o "Expecting value")
              /\ log = <<>>
        /\ exc.raised => out[1] = ErrDoc(exc.type \o ": " \o exc.msg)

\* C2: for a request object naming one of the five operations the response
\* has a boolean ok and exactly one of result / error: result iff ok is
\* true, error iff ok is false.
C2_ResultXorError ==
    (pc = "done" /\ NamesKnownOp) =>
        /\ Len(out) = 1
        /\ "ok" \in DOMAIN out[1]
        /\ out[1].ok \in BOOLEAN
        /\ ("result" \in DOMAIN out[1]) <=> (out[1].ok = TRUE)
        /\ ("error" \in DOMAIN out[1]) <=> (out[1].ok = FALSE)

\* C2 witness: a known operation whose engine call raised, answered
C2_Witness ==
    /\ pc = "done" /\ NamesKnownOp
    /\ RequestOp.v = "render_map"
    /\ exc.raised
    /\ out # <<>>

\* C3: a request for one of the four state operations without game_state is
\* answered exactly {ok:false, error:"Missing game_state"} and no engine
\* capability is invoked at any point of the run; new_game never yields this
\* error, with or without game_state.
C3_MissingGameState ==
    /\ (IsObject /\ RequestOp.present /\ RequestOp.v \in StateOps
           /\ ~request.body.game_state.present) =>
          /\ log = <<>>
          /\ pc \notin {"loaded", "emit", "except", "escaped"}
          /\ pc = "done" => out = <<ErrDoc("Missing game_state")>>
    /\ (IsObject /\ RequestOp.present /\ RequestOp.v = "new_game") =>
          \A i \in 1..Len(out) : out[i] # ErrDoc("Missing game_state")

\* C3 witness: get_possible without game_state, answered
C3_Witness ==
    /\ pc = "done"
    /\ IsObject /\ RequestOp.present /\ RequestOp.v = "get_possible"
    /\ ~request.body.game_state.present
    /\ out = <<ErrDoc("Missing game_state")>>

OtherPhases == {i \in 1..Len(game.phases) : game.phases[i].name # game.phase}

\* C8: order_results of set_orders_and_process carries the orders and results
\* of the last entry of the serialized history whose name differs from the
\* engine's current phase after processing; with no such entry,
\* order_results is omitted and the response is still ok:true.
C8_OrderResults ==
    Succeeded("set_orders_and_process") =>
        /\ Len(out) = 1
        /\ out[1].ok = TRUE
        /\ "result" \in DOMAIN out[1]
        /\ IF OtherPhases = {} \/ ~game.hasPhases
           THEN "order_results" \notin DOMAIN out[1].result
           ELSE /\ "order_results" \in DOMAIN out[1].result
                /\ out[1].result.order_results =
                      [orders  |-> GetKey(game.phases[SetMax(OtherPhases)], "orders", "{}"),
                       results |-> GetKey(game.phases[SetMax(OtherPhases)], "results", "{}")]

\* C8 witness: the history ends with the now-active phase, a completed phase
\* with recorded orders stands before it, and that one is reported
C8_Witness ==
    /\ Succeeded("set_orders_and_process")
    /\ Len(game.phases) = 2
    /\ game.phases[2].name = game.phase
    /\ game.phases[1].name # game.phase
    /\ "orders" \in DOMAIN game.phases[1]
    /\ "orders" \in DOMAIN game.phases[2]
    /\ game.phases[1].orders # game.phases[2].orders
    /\ out[1].result.order_results.orders = game.phases[1].orders

\* C9 (as claimed): possible_orders has an entry for every power, whose key
\* set is the power's orderable locations and whose values are
\* all-possible-orders at those locations.
C9_KeysAreOrderableLocations ==
    Succeeded("get_possible") =>
        /\ out = <<OkDoc(result)>>
        /\ DOMAIN result.possible_orders = PowerSet
        /\ \A n \in PowerSet :
              /\ DOMAIN result.possible_orders[n] = game.orderable[n]
              /\ \A loc \in DOMAIN result.possible_orders[n] :
                    result.possible_orders[n][loc] = game.possible[loc]

\* C9 (amended): possible_orders has an entry for every power reported by the
\* engine; its key set is those of the power's orderable locations that
\* all-possible-orders has an entry for, and each value equals
\* all-possible-orders at that location.
C9_KeysAreOrderableWithEntry ==
    Succeeded("get_possible") =>
        /\ out = <<OkDoc(result)>>
        /\ DOMAIN result.possible_orders = PowerSet
        /\ \A n \in PowerSet :
              /\ DOMAIN result.possible_orders[n]
                    = game.orderable[n] \cap DOMAIN game.possible
              /\ \A loc \in DOMAIN result.possible_orders[n] :
                    result.possible_orders[n][loc] = game.possible[loc]

\* C9 witness: a power with one orderable location the engine lists orders
\* for and one it does not, while the engine lists a location that is not
\* the power's
C9_Witness ==
    /\ Succeeded("get_possible")
    /\ game.orderable["FRANCE"] = {"PAR", "BUR"}
    /\ game.orderable["ITALY"] = {}
    /\ DOMAIN game.possible = {"PAR"}
    /\ game.possible["PAR"] # <<>>
    /\ DOMAIN out[1].result.possible_orders["FRANCE"] = {"PAR"}

\* C10: a successful set_orders_and_process run calls deserialize once, then
\* set-orders once for each key of the request's orders mapping and for no
\* other, then process exactly once, then serialize; the returned
\* game_state, phase, units and centers are those after processing; render is
\* called, after process, iff the render flag is true, and svg is in the
\* result exactly then, post-processed against the centers after processing.
C10_CallOrder ==
    Succeeded("set_orders_and_process") =>
        LET orders == IF request.body.orders.present THEN request.body.orders.v ELSE <<>>
            n      == Len(orders)
            flag   == request.body.render = Given(TRUE)
            after  == [p \in PowerSet |-> get_centers(game, p)]
        IN  /\ out = <<OkDoc(result)>>
            /\ Indices("from_saved_game_format") = {1}
            /\ Indices("set_orders") = 2..(n + 1)
            /\ \A i \in 1..n : log[i + 1].arg = orders[i]
            /\ Indices("process") = {n + 2}
            /\ Indices("to_saved_game_format") = {n + 3}
            /\ game.ver = request.body.game_state.v.ver + 1
            /\ result.game_state.ver = game.ver
            /\ result.game_state.phase = game.phase
            /\ result.phase = game.phase
            /\ \A p \in PowerSet : result.units[p].unitsAt = game.ver
            /\ result.centers = after
            /\ Times("render") = (IF flag THEN 1 ELSE 0)
            /\ \A i \in Indices("render") : i > n + 2
            /\ ("svg" \in DOMAIN result) <=> flag
            /\ flag => result.svg = strip_non_sc_coloring(rendered, after)

\* C10 witness: orders for two powers, render requested, and the overlay of a
\* province that stopped being a center in this very step is stripped
C10_Witness ==
    /\ Succeeded("set_orders_and_process")
    /\ request.body.orders = Given(<<"ITALY", "FRANCE">>)
    /\ request.body.render = Given(TRUE)
    /\ "svg" \in DOMAIN result
    /\ result.svg # rendered
    /\ result.svg # strip_non_sc_coloring(rendered,
                        [p \in PowerSet |-> get_centers(FreshGame, p)])

----------------------------------------------------------------------------
(* Properties of strip_non_sc_coloring *)

\* The document with every segment carrying its position, so that an
\* occurrence can be followed from the input to the output
Tagged(doc) ==
    [i \in 1..Len(doc) |->
        [k |-> doc[i].k, name |-> doc[i].name, class |-> doc[i].class,
         len |-> doc[i].len, pos |-> i]]
Untagged(doc) ==
    [i \in 1..Len(doc) |->
        [k |-> doc[i].k, name |-> doc[i].name, class |-> doc[i].class,
         len |-> doc[i].len]]
Present(tdoc) == {tdoc[j].pos : j \in 1..Len(tdoc)}

\* The id markers before segment m, any distance away / within the window
MarkersBefore(doc, m) ==
    {j \in 1..(m - 1) : doc[j].k = "id" /\ IdRegexMatches(doc[j].name)}
MarkersInWindow(doc, m) ==
    {j \in MarkersBefore(doc, m) : Offset(doc, j) >= Offset(doc, m) - Window}
CodeOf(doc, j) == Province(doc[j].name)
Overlays(doc) == {i \in 1..Len(doc) : PatternMatches(doc[i])}

\* Whether occurrence i of the input is in the tagged output t, unchanged
KeptIn(t, i) == \E j \in 1..Len(t) : t[j] = Tagged(svg)[i]

\* C5 (as claimed): strip_non_sc_coloring is idempotent:
\* strip(strip(svg, centers), centers) = strip(svg, centers), character for
\* character, for every document and centers mapping.
C5_Idempotent == spc = "twice" => out2 = out1

NearestAnyDistance(t, scs) ==
    /\ Untagged(t) = out1
    /\ \A i \in Overlays(svg) :
          MarkersBefore(svg, i) # {} =>
             IF CodeOf(svg, SetMax(MarkersBefore(svg, i))) \in scs
             THEN KeptIn(t, i)
             ELSE i \notin Present(t)

\* C6 (as claimed): every power-coloured element whose nearest preceding id
\* marker (wherever it is) resolves to a code outside the centers is absent
\* from the output; every one whose code is among the centers is in the
\* output unchanged.
C6_NearestMarkerAnyDistance ==
    spc # "in" =>
        NearestAnyDistance(strip_non_sc_coloring(Tagged(svg), centers), AllScs(centers))

WindowedMarker(t, scs) ==
    /\ Untagged(t) = out1
    /\ \A i \in Overlays(svg) :
          MarkersInWindow(svg, i) # {} =>
             IF CodeOf(svg, SetMax(MarkersInWindow(svg, i))) \in scs
             THEN KeptIn(t, i)
             ELSE i \notin Present(t)

\* C6 (amended): every match of the overlay pattern whose resolved code --
\* the last id marker lying wholly within the 500 characters before the
\* match, underscores stripped, uppercased, first 3 characters -- is outside
\* the union of the normalized centers is deleted from the output; every
\* match whose code is in the union is in the output unchanged.
C6_WindowedMarker ==
    spc # "in" =>
        WindowedMarker(strip_non_sc_coloring(Tagged(svg), centers), AllScs(centers))

DeletedAndKept(t, scs) ==
    \E i, h \in Overlays(svg) :
        /\ i \notin Present(t)
        /\ KeptIn(t, h)
        /\ Cardinality(MarkersInWindow(svg, h)) >= 2
        /\ CodeOf(svg, SetMax(MarkersInWindow(svg, h))) \in scs

\* C6 witness: one document with an overlay deleted (code outside the
\* centers) and an overlay kept (code among the centers), the kept one
\* resolved through a marker that is not the first in its window
C6_Witness ==
    /\ spc = "once"
    /\ Overlays(svg) # {}
    /\ DeletedAndKept(strip_non_sc_coloring(Tagged(svg), centers), AllScs(centers))

Frame(t) ==
    /\ Untagged(t) = out1
    /\ \A j \in 1..Len(t) :
          /\ t[j] = Tagged(svg)[t[j].pos]
          /\ j > 1 => t[j - 1].pos < t[j].pos
    /\ \A i \in 1..Len(svg) :
          i \notin Present(t) => i \in Overlays(svg) /\ MarkersInWindow(svg, i) # {}
    /\ Overlays(svg) = {} => out1 = svg

\* C7: the output is the input with only removed overlay matches deleted:
\* the surviving segments are the input's, verbatim and in order; nothing
\* that is not a pattern match is dropped; a match with no id marker in the
\* 500 characters before it is kept; a document with no match is unchanged.
C7_Frame == spc # "in" => Frame(strip_non_sc_coloring(Tagged(svg), centers))

DeletedAndFailOpen(t) ==
    \E i, h \in Overlays(svg) :
        /\ i \notin Present(t)
        /\ i < h
        /\ MarkersBefore(svg, h) # {}
        /\ MarkersInWindow(svg, h) = {}
        /\ KeptIn(t, h)

\* C7 witness: an overlay was deleted, text follows it, and an overlay with
\* a marker before it but none within 500 characters was kept
C7_Witness ==
    /\ spc = "once"
    /\ out1 # svg
    /\ DeletedAndFailOpen(strip_non_sc_coloring(Tagged(svg), centers))

====
